---- MODULE Spec2Model ----
(***************************************************************************)
(* Airtel Kenya C2B IPN service: the transaction lifecycle driven by the   *)
(* validate endpoint (app/api/validate.py) and the process endpoint        *)
(* (app/api/process.py) over the store of app/models/repository.py.        *)
(*                                                                         *)
(* A request is handled by a worker; a worker's position is pc[w].  One    *)
(* action is one database statement of a handler together with the local   *)
(* computation that follows it up to the next statement or to the reply,   *)
(* so that workers interleave exactly where the code reaches the store.    *)
(*                                                                         *)
(* create_transaction leaves customer_id unset although the column is      *)
(* declared NOT NULL.  notNullEnforced says whether the deployed table     *)
(* enforces the declaration: TRUE is the schema as declared, under which   *)
(* every insert is rejected; FALSE admits the insert, so that the model    *)
(* also covers the statements behind it.  Safety properties are checked    *)
(* over both.  With the declared schema the service itself never writes a  *)
(* transaction, so the initial store may hold one written beforehand.      *)
(***************************************************************************)
EXTENDS Integers, Sequences, FiniteSets, TLC

\* ------------------------------------------------------------------ bounds

\* Requests the service accepts in one behaviour.
MaxCalls == 2


\* ------------------------------------------------------------- Python values

\* Python's None as a payload value, a column value or a local.
None == "<None>"

\* SQL NULL in an integer column (primary keys start at 1).
NullId == 0

\* Python truthiness of a payload value: None and the empty string are falsy.
Truthy(v) == v # None /\ v # ""

\* ------------------------------------------------------------------ strings

\* The characters of the strings the model uses as bill references.
Chars(s) ==
  CASE s = "ACC1"   -> <<"A", "C", "C", "1">>
    [] s = "INV1"   -> <<"I", "N", "V", "1">>
    [] s = "MTR1"   -> <<"M", "T", "R", "1">>
    [] s = "POL1"   -> <<"P", "O", "L", "1">>
    [] s = "MSI1"   -> <<"M", "S", "I", "1">>
    [] s = "INV@1"  -> <<"I", "N", "V", "@", "1">>
    [] s = "A B"    -> <<"A", " ", "B">>
    [] s = "A-b_.9" -> <<"A", "-", "b", "_", ".", "9">>
    [] s = "ACC1\n" -> <<"A", "C", "C", "1", "\n">>
    [] s = "LONG51" -> [i \in 1..51 |-> "A"]
    [] s = ""       -> <<>>
    [] OTHER        -> <<"?">>

\* str.startswith for a three-character prefix.
StartsWith(s, prefix) ==
  LET cs == Chars(s)
  IN  Len(cs) >= Len(prefix) /\ SubSeq(cs, 1, Len(prefix)) = prefix

\* The character class [a-zA-Z0-9_\-\.] of validate_bill_ref.
BillRefChar(c) ==
  c \in {"A", "B", "C", "I", "L", "M", "N", "O", "P", "R", "S", "T", "V", "a", "b",
         "0", "1", "9", "_", "-", "."}

\* re.match(r'^[a-zA-Z0-9_\-\.]+$', s): '$' matches at the end of the string
\* and also just before a newline that ends the string.
BillRefPatternMatches(s) ==
  LET cs == Chars(s)
      n  == Len(cs)
      AllOk(k) == k >= 1 /\ \A i \in 1..k : BillRefChar(cs[i])
  IN  AllOk(n) \/ (n >= 2 /\ cs[n] = "\n" /\ AllOk(n - 1))

\* Longest bill reference validate_bill_ref accepts.
MaxBillRefLen == 50

\* A validate_bill_ref without the character-class check.
validate_bill_ref_any_characters(bill_ref) ==
  IF ~Truthy(bill_ref)
    THEN <<FALSE, "Bill reference number cannot be empty">>
  ELSE IF Len(Chars(bill_ref)) > MaxBillRefLen
    THEN <<FALSE, "Bill reference number is too long">>
  ELSE <<TRUE, None>>

\* validate_bill_ref: <<is_valid, error_message>>.
validate_bill_ref(bill_ref) ==
  IF ~Truthy(bill_ref)
    THEN <<FALSE, "Bill reference number cannot be empty">>
  ELSE IF Len(Chars(bill_ref)) > MaxBillRefLen
    THEN <<FALSE, "Bill reference number is too long">>
  ELSE IF ~BillRefPatternMatches(bill_ref)
    THEN <<FALSE, "Bill reference number contains invalid characters">>
  ELSE <<TRUE, None>>

\* str.upper() on the reference types the model uses.
Upper(s) ==
  CASE s = "account" -> "ACCOUNT"
    [] s = "Invoice" -> "INVOICE"
    [] OTHER         -> s

allowed_ref_types == {"MSISDN", "ACCOUNT", "INVOICE", "POLICY", "METER", "OTHER"}

\* A validate_ref_type that compares without upper-casing.
validate_ref_type_case_sensitive(ref_type) ==
  IF ~Truthy(ref_type)
    THEN <<FALSE, "Reference type cannot be empty">>
  ELSE IF ref_type \notin allowed_ref_types
    THEN <<FALSE, "Reference type must be one of: MSISDN, ACCOUNT, INVOICE, POLICY, METER, OTHER">>
  ELSE <<TRUE, None>>

\* validate_ref_type: <<is_valid, error_message>>.
validate_ref_type(ref_type) ==
  IF ~Truthy(ref_type)
    THEN <<FALSE, "Reference type cannot be empty">>
  ELSE IF Upper(ref_type) \notin allowed_ref_types
    THEN <<FALSE, "Reference type must be one of: MSISDN, ACCOUNT, INVOICE, POLICY, METER, OTHER">>
  ELSE <<TRUE, None>>

\* ---------------------------------------------------------- customer directory

\* CustomerStatus member names, as the Enum column stores them.
CustomerStatus == {"ACTIVE", "INACTIVE", "SUSPENDED"}

\* The customers table: every column the endpoints read except status, which
\* the directory owner changes (custStatus).  (bill_ref, ref_type) is unique;
\* the table puts no syntax rule on bill_ref.
Customer ==
  { [id |-> 1, bill_ref |-> "ACC1",  ref_type |-> "ACCOUNT", msisdn |-> "M1",
     full_name |-> "John Doe"],
    [id |-> 2, bill_ref |-> "INV1",  ref_type |-> "INVOICE", msisdn |-> "M2",
     full_name |-> "Jane Smith"],
    [id |-> 3, bill_ref |-> "INV@1", ref_type |-> "INVOICE", msisdn |-> "M3",
     full_name |-> "Bob Johnson"],
    [id |-> 4, bill_ref |-> "POL1",  ref_type |-> "POLICY",  msisdn |-> "M4",
     full_name |-> "Ann Lee"] }

\* The customer who is suspended when the service starts.
SuspendedCustomers == {4}

CustomerIds == {c.id : c \in Customer}

CustomerById(id) == CHOOSE c \in Customer : c.id = id

\* ------------------------------------------------------------------ requests

\* External ids the gateway uses.
TransactionIds == {"T1", "T2"}

\* A validate payload: payload.get(key) for every key the handler reads, and
\* refType, the key under which a caller names a reference type
\* (tests/test_endpoints.py); no handler reads it.
ValidatePayload(type, ref1, ref, amount, msisdn) ==
  [TYPE |-> type, REFERENCE1 |-> ref1, REFERENCE |-> ref, AMOUNT |-> amount,
   CUSTOMERMSISDN |-> msisdn, MERCHANTMSISDN |-> "MM", REFERENCE2 |-> None,
   refType |-> None]

\* A process payload.
ProcessPayload(ref1, ref2) ==
  [TYPE |-> "C2B", REFERENCE1 |-> ref1, REFERENCE |-> None, AMOUNT |-> None,
   CUSTOMERMSISDN |-> None, MERCHANTMSISDN |-> None, REFERENCE2 |-> ref2,
   refType |-> None]

\* A payload that also names a reference type.
WithRefType(payload, ref_type) == [payload EXCEPT !.refType = ref_type]

\* A payload that was never decoded.
NoPayload == ProcessPayload(None, None)

\* A request: the endpoint it is posted to; the format its body is taken for
\* ("xml" when body_str.strip() starts with "<", "json" otherwise); what the
\* body is (a markup document or a JSON object, markup that does not parse,
\* text that is not JSON, a JSON list); whether it carries valid credentials;
\* and the payload the body decodes to.
Request(endpoint, format, body, credentials, payload) ==
  [endpoint |-> endpoint, format |-> format, body |-> body,
   credentials |-> credentials, payload |-> payload]

\* No request.
NoRequest == Request(None, None, None, FALSE, NoPayload)

\* The validate requests of the model: a well-formed C2B notification for each
\* customer and external id, and the deviations the handler tells apart (another
\* payer phone, no TYPE, a bill reference that ends with a newline, a missing
\* amount with an invalid bill reference or with one of the other prefixes, a
\* reference type named by the caller, an amount that is not a number), and
\* the requests that do not reach the checks (undecodable bodies, no
\* credentials).
ValidateRequests ==
  LET wellFormed ==
        { Request("validate", "json", "object", TRUE,
                  ValidatePayload("C2B", "T1", c.bill_ref, "100", c.msisdn)) :
          c \in Customer }
      markup ==
        { Request("validate", "xml", "object", TRUE,
                  WithRefType(ValidatePayload("C2B", "T1", "ACC1", "100", "M1"), "UNKNOWN")),
          Request("validate", "json", "object", TRUE,
                  ValidatePayload("C2B", "T2", "ACC1", "100", "M1")) }
      deviating ==
        { Request("validate", "json", "object", TRUE, p) :
          p \in { WithRefType(ValidatePayload("C2B", "T1", "ACC1",  "100", "M2"), "Invoice"),
                  ValidatePayload(None,  "T1", "INV1",  "100", "M2"),
                  ValidatePayload("C2B", "T1", "ACC1\n", "100", "M1"),
                  WithRefType(ValidatePayload("C2B", "T1", "INV@1", None,  "M3"), ""),
                  ValidatePayload("C2B", "T1", "ACC1", "1&2", "M1"),
                  ValidatePayload("C2B", "T1", "MTR1", None, "M1"),
                  ValidatePayload("C2B", "T1", "MSI1", None, "M1") } }
      undecodable ==
        { Request("validate", "xml",  "malformed",  TRUE,  NoPayload),
          Request("validate", "json", "list",       TRUE,  NoPayload),
          Request("validate", "json", "object",     FALSE,
                  ValidatePayload("C2B", "T1", "ACC1", "100", "M1")) }
  IN  wellFormed \cup markup \cup deviating \cup undecodable

\* The process requests of the model.
ProcessRequests ==
  { Request("process", "json", "object", TRUE, ProcessPayload("T1", r2)) :
    r2 \in {"MOB1", None} }
  \cup { Request("process", "json", "object",    TRUE,  ProcessPayload("T2", None)),
         Request("process", "json", "object",    TRUE,  ProcessPayload(None, "MOB1")),
         Request("process", "xml",  "object",    TRUE,  ProcessPayload("T1", None)),
         Request("process", "json", "unparsable", TRUE, NoPayload),
         Request("process", "json", "object",    FALSE, ProcessPayload("T1", None)) }

\* ------------------------------------------------------------------- workers

Workers == {1, 2}

\* The server hands a request to the free worker with the lowest number.
Free(w, pcs) ==
  /\ pcs[w] \in {"idle", "done"}
  /\ \A v \in Workers : v < w => pcs[v] \notin {"idle", "done"}

VARIABLES
  transactions,         \* the transactions table: row i has primary key i
  validation_results,   \* the validation_results table, in insertion order
  processing_results,   \* the processing_results table, in insertion order
  custStatus,           \* customers.status, by customer id
  notNullEnforced,      \* whether the deployed transactions table rejects NULL
                        \* in the columns declared nullable=False
  pc,                   \* each worker's position in its handler
  req,                  \* the request a worker is handling or has answered
  loc,                  \* the handler's local variables
  reply,                \* what the handler returned
  eff,                  \* what the current call has written so far
  transport,            \* the HTTP status of the answer (0: none yet)
  attempted,            \* external ids a finished validate call tried to create
  refused,              \* external ids a finished process call refused for the customer
  calls                 \* requests accepted so far

vars == <<transactions, validation_results, processing_results, custStatus,
          notNullEnforced, pc, req, loc, reply, transport, eff, attempted, refused,
          calls>>

store == <<transactions, validation_results, processing_results>>

\* --------------------------------------------------------------------- store

TransactionStatus == {"PENDING", "VALIDATED", "PROCESSED", "FAILED"}

\* The request body as received (body_str).
Body(r) == <<r.format, r.payload>>

\* float(amount) for the amounts of the model; IsFloat tells whether it
\* returns, ValueErrorText is str(e) of the ValueError it raises otherwise.
IsFloat(s) == s = "100"

PyFloat(s) == CASE s = "100" -> 100 [] OTHER -> 0

ValueErrorText(s) == "could not convert string to float: '" \o s \o "'"

\* A lookup that lost its filter on transaction_id.
TransactionsWithAnyId(transaction_id) == DOMAIN transactions

\* Primary keys of the rows Transaction.transaction_id == transaction_id selects.
TransactionsWithId(transaction_id) ==
  {i \in DOMAIN transactions : transactions[i].transaction_id = transaction_id}

\* TransactionRepository.get_transaction_by_id: the row's key, or NullId.
get_transaction_by_id(id) == IF id \in DOMAIN transactions THEN id ELSE NullId

\* The row TransactionRepository.create_transaction builds from transaction_data:
\* the Transaction(...) call passes nine columns; customer_id, merchant_msisdn,
\* airtel_reference and mobiquity_reference are left unset.
NewTransaction(transaction_data) ==
  [transaction_id      |-> transaction_data.transaction_id,
   customer_id         |-> NullId,
   bill_ref            |-> transaction_data.bill_ref,
   ref_type            |-> transaction_data.ref_type,
   amount              |-> transaction_data.amount,
   msisdn              |-> transaction_data.msisdn,
   merchant_msisdn     |-> None,
   currency            |-> "KES",
   status              |-> "PENDING",
   airtel_reference    |-> None,
   mobiquity_reference |-> None,
   raw_payload         |-> transaction_data.raw_payload,
   updated_at          |-> 0]

\* A transactions table without the unique index on transaction_id.
IntegrityViolationWithoutUniqueIndex(row) ==
  notNullEnforced /\ row.customer_id = NullId

\* The constraints of the transactions table that an INSERT can violate:
\* transaction_id is unique, customer_id is NOT NULL.
IntegrityViolation(row) ==
  \/ TransactionsWithId(row.transaction_id) # {}
  \/ notNullEnforced /\ row.customer_id = NullId

\* An update that also blanks the row's external id.
update_transaction_status_renaming(db, id, status) ==
  IF id \in DOMAIN db
    THEN [db EXCEPT ![id].status = status, ![id].transaction_id = None]
    ELSE db

\* An update of the status that has lost its WHERE clause.
update_every_transaction_status(db, id, status) ==
  [i \in DOMAIN db |-> [db[i] EXCEPT !.status = status, !.updated_at = @ + 1]]

\* TransactionRepository.update_transaction_status on the transactions table db:
\* the row's status and updated_at, when the row exists.
update_transaction_status(db, id, status) ==
  IF id \in DOMAIN db
    THEN [db EXCEPT ![id].status = status, ![id].updated_at = @ + 1]
    ELSE db

\* A create_validation_result that records every outcome against the first
\* transaction.
NewValidationResultForFirstRow(transaction_id, is_valid, message) ==
  [transaction_id |-> 1, is_valid |-> is_valid, validation_message |-> message]

\* The row ValidationResultRepository.create_validation_result inserts.
NewValidationResult(transaction_id, is_valid, message) ==
  [transaction_id |-> transaction_id, is_valid |-> is_valid,
   validation_message |-> message]

\* A create_validation_result that marks a valid transaction PROCESSED.
ValidationStatusSkippingAhead(is_valid) == IF is_valid THEN "PROCESSED" ELSE "FAILED"

\* The status create_validation_result gives the transaction.
ValidationStatus(is_valid) == IF is_valid THEN "VALIDATED" ELSE "FAILED"

\* The row ProcessingResultRepository.create_processing_result inserts.
NewProcessingResult(transaction_id, is_processed, message) ==
  [transaction_id |-> transaction_id, is_processed |-> is_processed,
   processing_message |-> message]

\* The status create_processing_result gives the transaction.
ProcessingStatus(is_processed) == IF is_processed THEN "PROCESSED" ELSE "FAILED"

\* Outcome rows of a transaction.
ValidationResultsOf(id) ==
  {i \in DOMAIN validation_results : validation_results[i].transaction_id = id}

ProcessingResultsOf(id) ==
  {i \in DOMAIN processing_results : processing_results[i].transaction_id = id}

\* ------------------------------------------------------------------- replies

\* No reply yet.
NoReply ==
  [format |-> None, status |-> None, message |-> None, transactionId |-> None,
   extra |-> {}]

\* A create_response that answers every key-value reply with the id "unknown".
create_response_unknown_id(format_type, status, message, transaction_id, additional_data) ==
  IF format_type = "xml"
    THEN [format |-> "xml", status |-> status, message |-> message,
          transactionId |-> None, extra |-> {}]
    ELSE [format |-> "json", status |-> status, message |-> message,
          transactionId |-> "unknown", extra |-> additional_data]

\* create_response of process.py: the markup reply carries STATUS and MESSAGE
\* only; the key-value reply carries status, message, transactionId and the
\* additional data, when there is any.
create_response(format_type, status, message, transaction_id, additional_data) ==
  IF format_type = "xml"
    THEN [format |-> "xml", status |-> status, message |-> message,
          transactionId |-> None, extra |-> {}]
    ELSE [format |-> "json", status |-> status, message |-> message,
          transactionId |-> transaction_id, extra |-> additional_data]

\* create_response of validate.py: no additional data.
validate_create_response(format_type, status, message, transaction_id) ==
  IF format_type = "xml"
    THEN [format |-> "xml", status |-> status, message |-> message,
          transactionId |-> None, extra |-> {}]
    ELSE [format |-> "json", status |-> status, message |-> message,
          transactionId |-> transaction_id, extra |-> {}]

\* The reply of a handler's except branch.
InternalError(detail) == "Internal server error: " \o detail

\* --------------------------------------------------------------------- markup

\* A text as an XML parser reads it: a sequence of items in which every "&"
\* and "<" stands alone and every other item is free of both.  Of the texts
\* the model's replies carry, only the ValueError for the amount "1&2" has one.
MarkupItems(text) ==
  CASE text = InternalError(ValueErrorText("1&2")) ->
         <<"Internal server error: could not convert string to float: '1", "&", "2'">>
    [] OTHER -> <<text>>

Tags == {"COMMAND", "STATUS", "MESSAGE"}

OpenTag(t) == "<" \o t \o ">"

CloseTag(t) == "</" \o t \o ">"

\* The markup document create_response builds for format "xml": the f-string
\* puts status and message between the tags as they are.  (The white space
\* between the elements, which the parser skips, is left out.)
xml_response(status, message) ==
  <<OpenTag("COMMAND"), OpenTag("STATUS")>> \o MarkupItems(status)
    \o <<CloseTag("STATUS"), OpenTag("MESSAGE")>> \o MarkupItems(message)
    \o <<CloseTag("MESSAGE"), CloseTag("COMMAND")>>

\* An item that is character data: not a tag, not a bare "&" or "<".
IsText(x) ==
  /\ x \notin {"&", "<"}
  /\ \A t \in Tags : x # OpenTag(t) /\ x # CloseTag(t)

\* How many items of character data s starts with.
RECURSIVE TextRun(_)
TextRun(s) ==
  IF s # <<>> /\ IsText(s[1]) THEN 1 + TextRun(Tail(s)) ELSE 0

RECURSIVE Join(_)
Join(s) == IF s = <<>> THEN "" ELSE s[1] \o Join(Tail(s))

\* A tag the document does not have.
Absent == "<absent>"

\* ET.fromstring raised: parse_xml_request raises HTTPException(400).
ParseError == [ok |-> FALSE, data |-> [t \in Tags |-> Absent]]

\* for child in root: data[child.tag] = child.text, over the items s that
\* follow: each child is an open tag, character data (None when there is
\* none) and its close tag; anything else is not well-formed.  (No element of
\* the model's documents has elements of its own.)
RECURSIVE Children(_, _)
Children(s, data) ==
  IF s = <<>> THEN [ok |-> TRUE, data |-> data]
  ELSE IF \E t \in Tags : s[1] = OpenTag(t)
    THEN LET t    == CHOOSE u \in Tags : s[1] = OpenTag(u)
             k    == TextRun(Tail(s))
             text == IF k = 0 THEN None ELSE Join(SubSeq(s, 2, k + 1))
         IN  IF Len(s) >= k + 2 /\ s[k + 2] = CloseTag(t)
               THEN Children(SubSeq(s, k + 3, Len(s)), [data EXCEPT ![t] = text])
               ELSE ParseError
  ELSE ParseError

\* parse_xml_request: the text of every child of the root, by tag.
parse_xml_request(xml_content) ==
  LET n == Len(xml_content)
  IN  IF n >= 2 /\ xml_content[1] = OpenTag("COMMAND") /\ xml_content[n] = CloseTag("COMMAND")
        THEN Children(SubSeq(xml_content, 2, n - 1), [t \in Tags |-> Absent])
        ELSE ParseError

\* ------------------------------------------------------------ handler locals

NoLocals ==
  [ref_type |-> None, customer |-> NullId, customer_status |-> None,
   transaction |-> NullId, status |-> None]

\* What a call has written: rows inserted into and updates made to transactions,
\* rows inserted into validation_results and processing_results; and whether an
\* earlier validate call had already tried to create the call's external id.
NoEffects ==
  [tx_created |-> 0, tx_updated |-> 0, val_recorded |-> 0, proc_recorded |-> 0,
   repeat |-> FALSE]

\* ------------------------------------------------------------- validate_ipn

\* An inference that knows no prefix.
InferRefTypeAlwaysAccount(payload) ==
  IF payload.TYPE = "C2B" THEN "ACCOUNT" ELSE None

\* ref_type as validate_ipn sets it: inferred from the bill reference when the
\* payload has TYPE "C2B", None otherwise.
InferRefType(payload) ==
  IF payload.TYPE = "C2B"
    THEN IF      Truthy(payload.REFERENCE) /\ StartsWith(payload.REFERENCE, <<"I", "N", "V">>)
           THEN "INVOICE"
         ELSE IF Truthy(payload.REFERENCE) /\ StartsWith(payload.REFERENCE, <<"M", "T", "R">>)
           THEN "METER"
         ELSE IF Truthy(payload.REFERENCE) /\ StartsWith(payload.REFERENCE, <<"P", "O", "L">>)
           THEN "POLICY"
         ELSE IF Truthy(payload.REFERENCE) /\ StartsWith(payload.REFERENCE, <<"M", "S", "I">>)
           THEN "MSISDN"
         ELSE "ACCOUNT"
    ELSE None

\* A required-fields check that forgets the amount.
RequiredFieldsWithoutAmount(payload) ==
  /\ Truthy(payload.REFERENCE1)
  /\ Truthy(payload.REFERENCE)
  /\ Truthy(payload.CUSTOMERMSISDN)

\* all([transaction_id, bill_ref, amount, msisdn])
RequiredFieldsPresent(payload) ==
  /\ Truthy(payload.REFERENCE1)
  /\ Truthy(payload.REFERENCE)
  /\ Truthy(payload.AMOUNT)
  /\ Truthy(payload.CUSTOMERMSISDN)

\* The checks validate_ipn makes before it reaches the store, in order: the
\* message of the first one that fails, or None.
RequestFailure(payload, ref_type) ==
  IF ~RequiredFieldsPresent(payload)
    THEN "Missing required fields"
  ELSE IF ~validate_bill_ref(payload.REFERENCE)[1]
    THEN "Invalid bill reference: " \o validate_bill_ref(payload.REFERENCE)[2]
  ELSE IF Truthy(ref_type) /\ ~validate_ref_type(ref_type)[1]
    THEN "Invalid reference type: " \o validate_ref_type(ref_type)[2]
  ELSE None

\* A verify_customer without the filter on status.
verify_customer_any_status(bill_ref, ref_type, msisdn) ==
  {c.id : c \in
    {c \in Customer :
       /\ c.bill_ref = bill_ref
       /\ (Truthy(ref_type) => c.ref_type = ref_type)
       /\ c.msisdn = msisdn}}

\* A lookup that writes to the table: it suspends the customers.
query_first_suspending(customers) == [c \in DOMAIN customers |-> "SUSPENDED"]

\* The customers table after query.first(): the handlers load a customer and
\* assign to none of its attributes, so no commit of theirs writes to the table.
query_first(customers) == customers

\* verify_customer: the ids of the customers the query selects.
verify_customer(bill_ref, ref_type, msisdn) ==
  {c.id : c \in
    {c \in Customer :
       /\ c.bill_ref = bill_ref
       /\ (Truthy(ref_type) => c.ref_type = ref_type)
       /\ c.msisdn = msisdn
       /\ custStatus[c.id] = "ACTIVE"}}

\* transaction_data as validate_ipn builds it.
TransactionData(r, customer, ref_type) ==
  [transaction_id   |-> r.payload.REFERENCE1,
   customer_id      |-> customer,
   bill_ref         |-> r.payload.REFERENCE,
   ref_type         |-> IF Truthy(ref_type) THEN ref_type ELSE "ACCOUNT",
   amount           |-> PyFloat(r.payload.AMOUNT),
   msisdn           |-> r.payload.CUSTOMERMSISDN,
   merchant_msisdn  |-> r.payload.MERCHANTMSISDN,
   airtel_reference |-> r.payload.REFERENCE1,
   raw_payload      |-> Body(r)]

\* How a step of a call ends: the handler returns a reply, which the framework
\* sends with status 200; or an exception leaves the dependency or the handler
\* and the framework answers with its status; or the handler goes on.
\* (ReturnedWithErrorStatus: a handler that raises for a FAILED reply.)
ReturnedWithErrorStatus(response) ==
  [pc |-> "done", reply |-> response,
   transport |-> IF response.status = "FAILED" THEN 400 ELSE 200]

Returned(response) == [pc |-> "done", reply |-> response, transport |-> 200]

Raised(status_code) == [pc |-> "done", reply |-> NoReply, transport |-> status_code]

Entered(label) == [pc |-> label, reply |-> NoReply, transport |-> 0]

\* A step of worker w ends.
Finish(w, outcome) ==
  /\ pc' = [pc EXCEPT ![w] = outcome.pc]
  /\ reply' = [reply EXCEPT ![w] = outcome.reply]
  /\ transport' = [transport EXCEPT ![w] = outcome.transport]

Return(w, response) == Finish(w, Returned(response))

\* A worker goes on to its next statement.
Goto(w, label) ==
  /\ pc' = [pc EXCEPT ![w] = label]
  /\ UNCHANGED <<reply, transport>>

\* req, loc, reply, transport and eff describe a call from its request until
\* the server takes the next request: then the calls that have finished are
\* forgotten.
Forget(f, blank) == [v \in Workers |-> IF pc[v] = "done" THEN blank ELSE f[v]]

\* The server gives request r to worker w, whose first step ends with outcome;
\* repeat tells whether an earlier call had the same business with r's id.
Begin(w, r, locals, repeat, outcome) ==
  /\ req' = [Forget(req, NoRequest) EXCEPT ![w] = r]
  /\ loc' = [Forget(loc, NoLocals) EXCEPT ![w] = locals]
  /\ eff' = [Forget(eff, NoEffects) EXCEPT ![w] = [NoEffects EXCEPT !.repeat = repeat]]
  /\ pc' = [Forget(pc, "idle") EXCEPT ![w] = outcome.pc]
  /\ reply' = [Forget(reply, NoReply) EXCEPT ![w] = outcome.reply]
  /\ transport' = [Forget(transport, 0) EXCEPT ![w] = outcome.transport]
  /\ calls' = calls + 1

\* An application that secures the validate route only.
SecuredValidateOnly(endpoint) == endpoint = "validate"

\* The routes that depend on get_current_active_user: the API router is
\* included with the dependency, so every route of it does.
Secured(endpoint) == endpoint \in {"validate", "process"}

\* get_current_active_user: the user of a request with valid credentials;
\* FALSE stands for the 401 it raises otherwise.
get_current_active_user(r) == r.credentials

\* What becomes of a request before the handler reads a field of its payload:
\* the dependency rejects it, or decoding raises (parse_xml_request its
\* HTTPException, request.json() a JSONDecodeError, payload.get on a list an
\* AttributeError), or the handler goes on.
Intake(r) ==
  IF Secured(r.endpoint) /\ ~get_current_active_user(r) THEN "unauthorized"
  ELSE IF r.format = "xml" /\ r.body = "malformed" THEN "HTTPException"
  ELSE IF r.format = "json" /\ r.body = "unparsable" THEN "JSONDecodeError"
  ELSE IF r.format = "json" /\ r.body = "list" THEN "AttributeError"
  ELSE "handler"

\* The except branch of a handler for exception e.  It builds its reply with
\* payload.get("REFERENCE1", "unknown") if 'payload' in locals(): when payload
\* is bound to a list this raises again, and the second exception leaves the
\* handler.
Except(e) ==
  IF e = "AttributeError"
    THEN Raised(500)
    ELSE Returned(create_response("xml", "FAILED", InternalError(e), "unknown", {}))

\* The answer to a request that does not get to the handler's checks.
Turn(intake) ==
  IF intake = "unauthorized" THEN Raised(401) ELSE Except(intake)

\* validate_ipn up to the customer lookup: decode, extract, infer ref_type,
\* required fields, bill reference, reference type.
ValidateIpn(w) ==
  /\ Free(w, pc)
  /\ calls < MaxCalls
  /\ \E r \in ValidateRequests :
       LET ref_type == InferRefType(r.payload)
           failure  == RequestFailure(r.payload, ref_type)
           outcome  ==
             IF Intake(r) # "handler" THEN Turn(Intake(r))
             ELSE IF failure # None
               THEN Returned(validate_create_response(r.format, "FAILED", failure,
                                                      r.payload.REFERENCE1))
             ELSE Entered("verify_customer")
       IN  Begin(w, r, [NoLocals EXCEPT !.ref_type = ref_type],
                 r.payload.REFERENCE1 \in attempted, outcome)
  /\ UNCHANGED <<store, custStatus, notNullEnforced, attempted, refused>>

\* customer = verify_customer(...); if not customer: reply FAILED.
VerifyCustomer(w) ==
  /\ pc[w] = "verify_customer"
  /\ LET p     == req[w].payload
         found == verify_customer(p.REFERENCE, loc[w].ref_type, p.CUSTOMERMSISDN)
     IN  \/ /\ found = {}
            /\ Return(w, validate_create_response(req[w].format, "FAILED",
                           "Customer not found or inactive", p.REFERENCE1))
            /\ UNCHANGED loc
         \/ \E c \in found :
              /\ loc' = [loc EXCEPT ![w].customer = c,
                                    ![w].customer_status = custStatus[c]]
              /\ Goto(w, "check_existing")
  /\ custStatus' = query_first(custStatus)
  /\ UNCHANGED <<store, notNullEnforced, req, eff, attempted, refused, calls>>

\* existing_transaction = get_transaction_by_transaction_id(...); if it
\* exists: reply FAILED; otherwise transaction_data is built, and float(amount)
\* may raise.
CheckExisting(w) ==
  /\ pc[w] = "check_existing"
  /\ IF TransactionsWithId(req[w].payload.REFERENCE1) # {}
       THEN Return(w, validate_create_response(req[w].format, "FAILED",
                        "Transaction already processed", req[w].payload.REFERENCE1))
       ELSE IF ~IsFloat(req[w].payload.AMOUNT)
         THEN Finish(w, Except(ValueErrorText(req[w].payload.AMOUNT)))
       ELSE Goto(w, "create_transaction")
  /\ UNCHANGED <<store, custStatus, notNullEnforced, req, loc, eff, attempted, refused, calls>>

\* TransactionRepository.create_transaction: add, commit.  A commit that the
\* table's constraints reject raises; validate_ipn's except branch answers.
CreateTransaction(w) ==
  /\ pc[w] = "create_transaction"
  /\ LET row == NewTransaction(TransactionData(req[w], loc[w].customer, loc[w].ref_type))
     IN  IF IntegrityViolation(row)
           THEN /\ Return(w, validate_create_response("xml", "FAILED",
                               InternalError("IntegrityError"), req[w].payload.REFERENCE1))
                /\ attempted' = attempted \cup {req[w].payload.REFERENCE1}
                /\ UNCHANGED <<transactions, loc, eff>>
           ELSE /\ transactions' = Append(transactions, row)
                /\ loc' = [loc EXCEPT ![w].transaction = Len(transactions) + 1]
                /\ eff' = [eff EXCEPT ![w].tx_created = @ + 1]
                /\ Goto(w, "create_validation_result")
                /\ UNCHANGED attempted
  /\ UNCHANGED <<validation_results, processing_results, custStatus,
                 notNullEnforced, req, refused, calls>>

\* ValidationResultRepository.create_validation_result, first commit: the
\* ValidationResult row.
RecordValidation(w) ==
  /\ pc[w] = "create_validation_result"
  /\ validation_results' =
       Append(validation_results,
              NewValidationResult(loc[w].transaction, TRUE,
                                  "Transaction validated successfully"))
  /\ eff' = [eff EXCEPT ![w].val_recorded = @ + 1]
  /\ Goto(w, "validation_status")
  /\ UNCHANGED <<transactions, processing_results, custStatus, notNullEnforced,
                 req, loc, attempted, refused, calls>>

\* create_validation_result, second commit: the transaction's status; then
\* validate_ipn replies SUCCESS.
MarkValidated(w) ==
  /\ pc[w] = "validation_status"
  /\ transactions' =
       update_transaction_status(transactions, loc[w].transaction, ValidationStatus(TRUE))
  /\ eff' = [eff EXCEPT ![w].tx_updated = @ + 1]
  /\ Return(w, validate_create_response(req[w].format, "SUCCESS",
                 "Transaction validated successfully", req[w].payload.REFERENCE1))
  /\ attempted' = attempted \cup {req[w].payload.REFERENCE1}
  /\ UNCHANGED <<validation_results, processing_results, custStatus,
                 notNullEnforced, req, loc, refused, calls>>

\* -------------------------------------------------------------- process_ipn

\* A Python value with its type: a str, or a member of the CustomerStatus enum
\* (plain enum.Enum), as the ORM loads an Enum(CustomerStatus) column.
PyStr(s) == <<"str", s>>

EnumMember(name) == <<"CustomerStatus", name>>

\* Python's != between two such values.
PyNotEqual(a, b) == a # b

\* A customer check that compares the name of the enum member with "ACTIVE".
CustomerNotActiveByName(id) ==
  \/ id \notin CustomerIds
  \/ custStatus[id] # "ACTIVE"

\* not customer or customer.status != "ACTIVE", for the customer row with
\* primary key id (NullId: the query found no row).
CustomerNotActive(id) ==
  \/ id \notin CustomerIds
  \/ PyNotEqual(EnumMember(custStatus[id]), PyStr("ACTIVE"))

\* A status gate without the already-processed answer.
StatusGateWithoutIdempotence(status) ==
  IF status # "VALIDATED" THEN "not_validated" ELSE "proceed"

\* A status gate that lets a FAILED transaction be processed again.
StatusGateRetryingFailed(status) ==
  IF status = "PROCESSED" THEN "already_processed"
  ELSE IF status \notin {"VALIDATED", "FAILED"} THEN "not_validated"
  ELSE "proceed"

\* A status gate without the not-validated answer.
StatusGateWithoutValidatedCheck(status) ==
  IF status = "PROCESSED" THEN "already_processed" ELSE "proceed"

\* What process_ipn does with the status it read: answer that the transaction
\* was already processed, answer that it is not validated, or go on.
StatusGate(status) ==
  IF status = "PROCESSED" THEN "already_processed"
  ELSE IF status # "VALIDATED" THEN "not_validated"
  ELSE "proceed"

\* The message process_payment records: of the payment, or of the exception
\* that recording it raised.
ProcessingMessage(is_processed) ==
  IF is_processed THEN "Payment processed"
  ELSE "Payment processing error: OperationalError"

\* The additional data of a successful process reply.
AdditionalData(transaction, customer) ==
  {[billRef |-> transaction.bill_ref, amount |-> transaction.amount,
    currency |-> transaction.currency, customerName |-> customer.full_name,
    msisdn |-> customer.msisdn]}

\* transaction.mobiquity_reference = reference2; db.commit()
AttachReference(db, id, reference2) ==
  IF Truthy(reference2)
    THEN [db EXCEPT ![id].mobiquity_reference = reference2, ![id].updated_at = @ + 1]
    ELSE db

\* A check that takes every payload to carry a transaction id.
MissingTransactionIdNever(transaction_id) == FALSE

\* if not transaction_id: the payload carries no transaction id.
MissingTransactionId(transaction_id) == ~Truthy(transaction_id)

\* process_ipn up to the lookup of the transaction: decode, extract, check
\* that the payload carries a transaction id.
ProcessIpn(w) ==
  /\ Free(w, pc)
  /\ calls < MaxCalls
  /\ \E r \in ProcessRequests :
       LET outcome ==
             IF Intake(r) # "handler" THEN Turn(Intake(r))
             ELSE IF MissingTransactionId(r.payload.REFERENCE1)
               THEN Returned(create_response(r.format, "FAILED",
                                             "Missing transaction ID", "unknown", {}))
             ELSE Entered("get_transaction")
       IN  Begin(w, r, NoLocals, r.payload.REFERENCE1 \in refused, outcome)
  /\ UNCHANGED <<store, custStatus, notNullEnforced, attempted, refused>>

\* transaction = get_transaction_by_transaction_id(...), then the checks on
\* what it read: found, already processed, validated.
GetTransaction(w) ==
  /\ pc[w] = "get_transaction"
  /\ LET transaction_id == req[w].payload.REFERENCE1
         found          == TransactionsWithId(transaction_id)
     IN  \/ /\ found = {}
            /\ Return(w, create_response(req[w].format, "FAILED",
                           "Transaction not found", transaction_id, {}))
            /\ UNCHANGED loc
         \/ \E id \in found :
              LET gate == StatusGate(transactions[id].status)
              IN  /\ loc' = [loc EXCEPT ![w].transaction = id,
                                        ![w].status = transactions[id].status]
                  /\ IF gate = "already_processed"
                       THEN Return(w, create_response(req[w].format, "SUCCESS",
                                      "Transaction already processed", transaction_id, {}))
                     ELSE IF gate = "not_validated"
                       THEN Return(w, create_response(req[w].format, "FAILED",
                                      "Transaction not validated", transaction_id, {}))
                     ELSE Goto(w, "verify_active")
  /\ UNCHANGED <<store, custStatus, notNullEnforced, req, eff, attempted, refused,
                 calls>>

\* The customer query and everything after it: the check that the customer is
\* active, the secondary reference, process_payment (the ProcessingResult row
\* and the transaction's status) and the reply.  No call gets past the check
\* (CustomerNotActive), so what follows it is one step.
VerifyActive(w) ==
  /\ pc[w] = "verify_active"
  /\ LET id          == loc[w].transaction
         transaction == transactions[id]
         customer    == transaction.customer_id
         reference2  == req[w].payload.REFERENCE2
         seen        == [loc EXCEPT ![w].customer = customer,
                                    ![w].customer_status =
                                      IF customer \in CustomerIds
                                        THEN custStatus[customer] ELSE None]
     IN  IF CustomerNotActive(customer)
           THEN /\ Return(w, create_response(req[w].format, "FAILED",
                               "Customer not found or inactive",
                               req[w].payload.REFERENCE1, {}))
                /\ loc' = seen
                /\ refused' = refused \cup {req[w].payload.REFERENCE1}
                /\ UNCHANGED <<transactions, processing_results, eff>>
           ELSE \E is_processed \in BOOLEAN :
                /\ transactions' =
                     update_transaction_status(AttachReference(transactions, id, reference2),
                                               id, ProcessingStatus(is_processed))
                /\ processing_results' =
                     Append(processing_results,
                            NewProcessingResult(id, is_processed,
                                                ProcessingMessage(is_processed)))
                /\ loc' = seen
                /\ eff' = [eff EXCEPT ![w].proc_recorded = @ + 1,
                                      ![w].tx_updated = @ + (IF Truthy(reference2) THEN 2 ELSE 1)]
                /\ IF is_processed
                     THEN Return(w, create_response(req[w].format, "SUCCESS",
                                    "Transaction processed successfully",
                                    req[w].payload.REFERENCE1,
                                    AdditionalData(transaction, CustomerById(customer))))
                     ELSE Return(w, create_response(req[w].format, "FAILED",
                                    ProcessingMessage(FALSE),
                                    req[w].payload.REFERENCE1, {}))
                /\ UNCHANGED refused
  /\ custStatus' = query_first(custStatus)
  /\ UNCHANGED <<validation_results, notNullEnforced, req, attempted, calls>>

\* A store call raises (the database is unreachable, the statement times
\* out): nothing is written and the handler's except branch answers.
StorageFails(w) ==
  /\ pc[w] \in {"verify_customer", "check_existing", "create_transaction",
               "create_validation_result", "validation_status",
               "get_transaction", "verify_active"}
  /\ Finish(w, Except("OperationalError"))
  /\ UNCHANGED <<store, custStatus, notNullEnforced, req, loc, eff, attempted, refused,
                 calls>>

\* ---------------------------------------------------------------- directory

\* The status changes the owner of the customer directory makes: customer 1 is
\* deactivated or reactivated, any number of times.  (Both endpoints tell
\* ACTIVE from every other status and nothing more.)
DirectoryChanges == {<<1, "INACTIVE">>, <<1, "ACTIVE">>}

\* The owner of the customer directory changes a customer's status.
DirectorySetStatus ==
  /\ \E change \in DirectoryChanges :
       /\ custStatus[change[1]] # change[2]
       /\ custStatus' = [custStatus EXCEPT ![change[1]] = change[2]]
  /\ UNCHANGED <<store, notNullEnforced, pc, req, loc, reply, transport, eff, attempted,
                 refused, calls>>

\* ------------------------------------------------------------ specification

\* A transaction row as a complete lifecycle leaves it, for customer 1.
StoredTransaction(transaction_id, status, mobiquity_reference, updated_at) ==
  [transaction_id      |-> transaction_id,
   customer_id         |-> 1,
   bill_ref            |-> "ACC1",
   ref_type            |-> "ACCOUNT",
   amount              |-> 100,
   msisdn              |-> "M1",
   merchant_msisdn     |-> "MM",
   currency            |-> "KES",
   status              |-> status,
   airtel_reference    |-> transaction_id,
   mobiquity_reference |-> mobiquity_reference,
   raw_payload         |-> <<"json", ValidatePayload("C2B", transaction_id, "ACC1", "100", "M1")>>,
   updated_at          |-> updated_at]

\* What the tables hold when the service starts: nothing, or one transaction
\* written for customer 1 before this deployment, together with the outcome
\* rows of its status.
InitialStores ==
  LET valid  == NewValidationResult(1, TRUE, "Transaction validated successfully")
      done   == NewProcessingResult(1, TRUE, ProcessingMessage(TRUE))
      failed == NewProcessingResult(1, FALSE, ProcessingMessage(FALSE))
  IN  { <<<<>>, <<>>, <<>>>>,
        <<<<StoredTransaction("T1", "PENDING", None, 0)>>, <<>>, <<>>>>,
        <<<<StoredTransaction("T1", "VALIDATED", None, 1)>>, <<valid>>, <<>>>>,
        <<<<StoredTransaction("T1", "PROCESSED", "MOB0", 3)>>, <<valid>>, <<done>>>>,
        <<<<StoredTransaction("T1", "FAILED", None, 2)>>, <<valid>>, <<failed>>>> }

Init ==
  /\ \E s \in InitialStores :
       /\ transactions = s[1]
       /\ validation_results = s[2]
       /\ processing_results = s[3]
  /\ custStatus = [c \in CustomerIds |->
                     IF c \in SuspendedCustomers THEN "SUSPENDED" ELSE "ACTIVE"]
  /\ notNullEnforced \in {b \in BOOLEAN : b \/ transactions = <<>>}
  /\ pc = [w \in Workers |-> "idle"]
  /\ req = [w \in Workers |-> NoRequest]
  /\ loc = [w \in Workers |-> NoLocals]
  /\ reply = [w \in Workers |-> NoReply]
  /\ transport = [w \in Workers |-> 0]
  /\ eff = [w \in Workers |-> NoEffects]
  /\ attempted = {}
  /\ refused = {}
  /\ calls = 0

Next ==
  \/ \E w \in Workers : ValidateIpn(w)
  \/ \E w \in Workers : VerifyCustomer(w)
  \/ \E w \in Workers : CheckExisting(w)
  \/ \E w \in Workers : CreateTransaction(w)
  \/ \E w \in Workers : RecordValidation(w)
  \/ \E w \in Workers : MarkValidated(w)
  \/ \E w \in Workers : ProcessIpn(w)
  \/ \E w \in Workers : GetTransaction(w)
  \/ \E w \in Workers : VerifyActive(w)
  \/ \E w \in Workers : StorageFails(w)
  \/ DirectorySetStatus

Spec == Init /\ [][Next]_vars

\* ----------------------------------------------------------------- properties

\* Worker w is handling, or has answered, a call of the endpoint.
Validating(w) == req[w].endpoint = "validate"

Processing(w) == req[w].endpoint = "process"

Answered(w) == pc[w] = "done"

\* The call of worker w has written nothing to the store.
WroteNothing(w) ==
  /\ eff[w].tx_created = 0
  /\ eff[w].tx_updated = 0
  /\ eff[w].val_recorded = 0
  /\ eff[w].proc_recorded = 0

\* The request checks of the validate endpoint, stated on the payload alone.
MissingFields(p) ==
  ~Truthy(p.REFERENCE1) \/ ~Truthy(p.REFERENCE) \/ ~Truthy(p.AMOUNT)
    \/ ~Truthy(p.CUSTOMERMSISDN)

BadBillRef(p) ==
  ~Truthy(p.REFERENCE) \/ Len(Chars(p.REFERENCE)) > MaxBillRefLen \/ ~BillRefPatternMatches(p.REFERENCE)

BadRefType(ref_type) == Truthy(ref_type) /\ Upper(ref_type) \notin allowed_ref_types

WellFormed(w) ==
  /\ ~MissingFields(req[w].payload)
  /\ ~BadBillRef(req[w].payload)
  /\ ~BadRefType(loc[w].ref_type)

BillRefMessages ==
  {"Invalid bill reference: " \o m :
     m \in {"Bill reference number cannot be empty",
            "Bill reference number is too long",
            "Bill reference number contains invalid characters"}}

\* C1: however two or more process calls for the same VALIDATED transaction
\* interleave, at most one ProcessingOutcome is recorded for it: no transaction
\* ever has two processing results.
C1_AtMostOneProcessingOutcome ==
  \A id \in DOMAIN transactions : Cardinality(ProcessingResultsOf(id)) <= 1

\* Two process calls for the same transaction have both read it as VALIDATED:
\* one has answered, the other is past the status check and has not.
C1_Witness ==
  /\ Processing(1) /\ Processing(2)
  /\ loc[1].transaction # NullId
  /\ loc[1].transaction = loc[2].transaction
  /\ loc[1].status = "VALIDATED" /\ loc[2].status = "VALIDATED"
  /\ Answered(1)
  /\ pc[2] = "verify_active"

\* C2: no two transactions carry the same external id, also when validate
\* calls for one id run concurrently; the unique index on transaction_id
\* settles the race.
C2_UniqueExternalId ==
  \A i, j \in DOMAIN transactions :
    transactions[i].transaction_id = transactions[j].transaction_id => i = j

\* Two validate calls for one id both passed the existence check; one inserted
\* the row, the insert of the other was rejected.
C2_Witness ==
  \E w, v \in Workers :
    /\ w # v
    /\ Validating(w) /\ Validating(v)
    /\ req[w].payload.REFERENCE1 = req[v].payload.REFERENCE1
    /\ ~notNullEnforced
    /\ eff[w].tx_created = 1
    /\ Answered(v)
    /\ reply[v].message = InternalError("IntegrityError")

\* C3: a process call that reads its transaction as PROCESSED answers SUCCESS
\* "Transaction already processed", with or without a secondary reference, and
\* writes nothing: no new outcome, the transaction as it was.
C3_ProcessedIsIdempotent ==
  \A w \in Workers :
    (Processing(w) /\ Answered(w) /\ loc[w].status = "PROCESSED") =>
      /\ reply[w].status = "SUCCESS"
      /\ reply[w].message = "Transaction already processed"
      /\ WroteNothing(w)
      /\ transactions[loc[w].transaction].status = "PROCESSED"

\* A process call that brought another secondary reference was answered for a
\* PROCESSED transaction, which keeps the reference it had.
C3_Witness ==
  \E w \in Workers :
    /\ Processing(w) /\ Answered(w)
    /\ loc[w].status = "PROCESSED"
    /\ req[w].payload.REFERENCE2 = "MOB1"
    /\ transactions[loc[w].transaction].mobiquity_reference = "MOB0"
    /\ reply[w].message = "Transaction already processed"

\* C4: a process call that reads its transaction as PENDING answers FAILED
\* "Transaction not validated" and writes nothing; and a transaction has a
\* processing result only if it has a successful validation result.
C4_NoProcessingBeforeValidation ==
  /\ \A w \in Workers :
       (Processing(w) /\ Answered(w) /\ loc[w].status = "PENDING") =>
         /\ reply[w].status = "FAILED"
         /\ reply[w].message = "Transaction not validated"
         /\ WroteNothing(w)
  /\ \A id \in DOMAIN transactions :
       ProcessingResultsOf(id) # {} =>
         \E i \in ValidationResultsOf(id) : validation_results[i].is_valid

\* A process call was answered for a transaction that a validate call has
\* created and not yet recorded as validated.
C4_Witness ==
  \E w, v \in Workers :
    /\ Processing(w) /\ Answered(w)
    /\ loc[w].status = "PENDING"
    /\ Validating(v)
    /\ pc[v] = "create_validation_result"
    /\ loc[v].transaction = loc[w].transaction

\* The status changes of the lifecycle.
AllowedStatusChange(from, to) ==
  \/ from = "PENDING" /\ to = "VALIDATED"
  \/ from = "VALIDATED" /\ to = "PROCESSED"
  \/ from \in {"PENDING", "VALIDATED"} /\ to = "FAILED"

\* C5: a transaction's status changes only from PENDING to VALIDATED, from
\* VALIDATED to PROCESSED, or from PENDING or VALIDATED to FAILED; a PROCESSED
\* or FAILED transaction keeps its status, and no transaction disappears.
C5_StatusChangesAreAllowed ==
  [][\A id \in DOMAIN transactions :
       /\ id \in DOMAIN transactions'
       /\ transactions'[id].status # transactions[id].status =>
            AllowedStatusChange(transactions[id].status, transactions'[id].status)]_vars

\* A validate call has taken the transaction it created from PENDING to
\* VALIDATED.
C5_Witness ==
  \E w \in Workers :
    /\ Validating(w) /\ Answered(w)
    /\ eff[w].tx_created = 1 /\ eff[w].tx_updated = 1
    /\ transactions[loc[w].transaction].status = "VALIDATED"

\* No other worker has a request for the external id of worker w's request.
Alone(w) ==
  \A v \in Workers \ {w} : req[v].payload.REFERENCE1 # req[w].payload.REFERENCE1

\* C6: a validate call whose request passes the request checks, matches an
\* active customer and brings an external id with no transaction creates
\* exactly one transaction and one successful validation result, leaves the
\* transaction VALIDATED and answers SUCCESS "Transaction validated
\* successfully".
C6_ValidRequestIsValidated ==
  \A w \in Workers :
    ( /\ Validating(w) /\ Answered(w) /\ Alone(w)
      /\ WellFormed(w)
      /\ loc[w].customer # NullId
      /\ reply[w].message # "Transaction already processed" ) =>
      /\ reply[w].status = "SUCCESS"
      /\ reply[w].message = "Transaction validated successfully"
      /\ eff[w].tx_created = 1
      /\ eff[w].val_recorded = 1
      /\ Cardinality(TransactionsWithId(req[w].payload.REFERENCE1)) = 1
      /\ \A id \in TransactionsWithId(req[w].payload.REFERENCE1) :
           /\ transactions[id].status = "VALIDATED"
           /\ \E i \in ValidationResultsOf(id) : validation_results[i].is_valid

\* C7: with the schema enforced as declared, a process call that reads its
\* transaction as VALIDATED and its customer as ACTIVE records a processing result, leaves
\* the transaction PROCESSED and answers SUCCESS "Transaction processed
\* successfully", the key-value reply echoing billRef, amount, currency,
\* customerName and msisdn.
C7_ValidatedIsProcessed ==
  \A w \in Workers :
    ( /\ Processing(w) /\ Answered(w) /\ Alone(w)
      /\ notNullEnforced
      /\ loc[w].status = "VALIDATED"
      /\ loc[w].customer \in CustomerIds
      /\ loc[w].customer_status = "ACTIVE" ) =>
      /\ reply[w].status = "SUCCESS"
      /\ reply[w].message = "Transaction processed successfully"
      /\ eff[w].proc_recorded = 1
      /\ transactions[loc[w].transaction].status = "PROCESSED"
      /\ (reply[w].format = "json" =>
            reply[w].extra =
              AdditionalData(transactions[loc[w].transaction],
                             CustomerById(transactions[loc[w].transaction].customer_id)))

\* C8: when a validate call comes for an external id that an earlier validate
\* call, finished by then, has already brought with a request that passed every
\* check, there is exactly one transaction with that id and the later call
\* answers FAILED "Transaction already processed".
C8_SecondValidateIsDuplicate ==
  \A w \in Workers :
    ( /\ Validating(w) /\ Answered(w)
      /\ eff[w].repeat
      /\ WellFormed(w)
      /\ loc[w].customer # NullId ) =>
      /\ reply[w].status = "FAILED"
      /\ reply[w].message = "Transaction already processed"
      /\ Cardinality(TransactionsWithId(req[w].payload.REFERENCE1)) = 1

\* C9: a validate call that fails for missing fields, an invalid bill
\* reference, an invalid reference type, a customer not found or inactive, or
\* an external id already present, at no point writes a transaction or a
\* validation result.
C9_FailedValidateWritesNothing ==
  \A w \in Workers :
    ( /\ Validating(w)
      /\ \/ ~WellFormed(w)
         \/ reply[w].message \in {"Customer not found or inactive",
                                  "Transaction already processed"} ) =>
      WroteNothing(w)

\* A validate call for a customer whose bill reference has a character outside
\* the class was answered with the bill-reference failure.
C9_Witness ==
  \E w \in Workers :
    /\ Validating(w) /\ Answered(w)
    /\ req[w].payload = ValidatePayload("C2B", "T1", "INV@1", "100", "M3")
    /\ custStatus[3] = "ACTIVE"
    /\ reply[w].status = "FAILED"
    /\ reply[w].message \in BillRefMessages
    /\ WroteNothing(w)

\* C10: the validate endpoint reports the first check that fails, in the order
\* required fields, bill reference, reference type, customer, existing external
\* id: a request with a missing field is answered "Missing required fields"
\* whatever else is wrong with it, and a request without an active customer is
\* answered "Customer not found or inactive" even when its external id exists.
\* (Of the calls that get to the checks and that no store call fails.)
C10_FirstFailingCheckAnswers ==
  \A w \in Workers :
    (Validating(w) /\ Answered(w) /\ Intake(req[w]) = "handler"
       /\ reply[w].message # InternalError("OperationalError")) =>
      LET p   == req[w].payload
          msg == reply[w].message
      IN  IF MissingFields(p) THEN msg = "Missing required fields"
          ELSE IF BadBillRef(p) THEN msg \in BillRefMessages
          ELSE IF BadRefType(loc[w].ref_type)
            THEN msg = "Invalid reference type: " \o validate_ref_type(loc[w].ref_type)[2]
          ELSE IF loc[w].customer = NullId THEN msg = "Customer not found or inactive"
          ELSE msg \in {"Transaction already processed",
                        "Transaction validated successfully",
                        InternalError("IntegrityError"),
                        InternalError(ValueErrorText(p.AMOUNT))}

\* A validate call whose external id has a transaction and whose payer phone
\* matches no customer was answered with the customer failure.
C10_Witness ==
  \E w \in Workers :
    /\ Validating(w) /\ Answered(w)
    /\ WellFormed(w)
    /\ TransactionsWithId(req[w].payload.REFERENCE1) # {}
    /\ verify_customer(req[w].payload.REFERENCE, loc[w].ref_type,
                       req[w].payload.CUSTOMERMSISDN) = {}
    /\ reply[w].message = "Customer not found or inactive"

\* The call of worker w got to the handler's checks, and no store call of it
\* raised.
Decoded(w) == Intake(req[w]) = "handler"

Faulted(w) == reply[w].message = InternalError("OperationalError")

\* No transaction has the external id.
Unknown(transaction_id) ==
  \A i \in DOMAIN transactions : transactions[i].transaction_id # transaction_id

\* C11: a process call for an external id that no transaction has answers
\* FAILED "Transaction not found" and writes nothing.
C11_UnknownTransactionIsNotFound ==
  \A w \in Workers :
    ( /\ Processing(w) /\ Answered(w) /\ Decoded(w) /\ ~Faulted(w)
      /\ Truthy(req[w].payload.REFERENCE1)
      /\ Unknown(req[w].payload.REFERENCE1) ) =>
      /\ reply[w].status = "FAILED"
      /\ reply[w].message = "Transaction not found"
      /\ WroteNothing(w)

\* A process call for T2 was answered while the store holds T1 only.
C11_Witness ==
  \E w \in Workers :
    /\ Processing(w) /\ Answered(w)
    /\ req[w].payload.REFERENCE1 = "T2"
    /\ Unknown("T2") /\ ~Unknown("T1")
    /\ reply[w].message = "Transaction not found"

\* C12: a process call that reads its transaction as VALIDATED and finds the
\* customer missing or not ACTIVE answers FAILED "Customer not found or
\* inactive" and writes nothing (no status change, no processing result, no
\* secondary reference), so that a later process call for the same id that
\* finds the customer ACTIVE succeeds.
C12_RefusalLeavesRetryPossible ==
  \A w \in Workers :
    (Processing(w) /\ Answered(w) /\ loc[w].status = "VALIDATED" /\ ~Faulted(w)) =>
      IF loc[w].customer \notin CustomerIds \/ loc[w].customer_status # "ACTIVE"
        THEN /\ reply[w].status = "FAILED"
             /\ reply[w].message = "Customer not found or inactive"
             /\ WroteNothing(w)
        ELSE eff[w].repeat => reply[w].status = "SUCCESS"

C14_ReplyFormatIsRequestFormat ==
  \A w \in Workers :
    (Answered(w) /\ Decoded(w) /\ transport[w] = 200) =>
      reply[w].format = req[w].format

\* C15: every call with credentials, whatever its body and whatever the store
\* does, ends with a reply whose status is SUCCESS or FAILED; no exception
\* leaves the handler.
C15_NoFaultEscapes ==
  \A w \in Workers :
    (Answered(w) /\ get_current_active_user(req[w])) =>
      /\ transport[w] = 200
      /\ reply[w].status \in {"SUCCESS", "FAILED"}

\* C16: a request whose body is markup that does not parse is answered with
\* the decoder's status 400, not with a reply sent with status 200, and
\* writes nothing.
C16_MalformedMarkupIsTransportError ==
  \A w \in Workers :
    ( /\ Answered(w) /\ get_current_active_user(req[w])
      /\ req[w].format = "xml" /\ req[w].body = "malformed" ) =>
      /\ transport[w] = 400
      /\ WroteNothing(w)

\* The business failures of the two endpoints, stated on the request and on
\* what the call read.
BusinessFailure(w) ==
  \/ /\ Validating(w)
     /\ \/ ~WellFormed(w)
        \/ loc[w].customer = NullId
        \/ ~Unknown(req[w].payload.REFERENCE1) /\ eff[w].tx_created = 0
  \/ /\ Processing(w)
     /\ \/ ~Truthy(req[w].payload.REFERENCE1)
        \/ Unknown(req[w].payload.REFERENCE1)
        \/ loc[w].status \in {"PENDING", "FAILED"}

\* C17: every business failure of validate or process (missing fields,
\* invalid bill reference or reference type, customer unknown or inactive,
\* duplicate id, unknown transaction, transaction not validated) is answered
\* with status 200 and a reply whose status is FAILED.
C17_BusinessFailureIsReplied ==
  \A w \in Workers :
    (Answered(w) /\ Decoded(w) /\ ~Faulted(w) /\ BusinessFailure(w)) =>
      /\ transport[w] = 200
      /\ reply[w].status = "FAILED"

\* A validate call with a missing field was answered.
C17_Witness ==
  \E w \in Workers :
    /\ Validating(w) /\ Answered(w) /\ Decoded(w)
    /\ MissingFields(req[w].payload)
    /\ transport[w] = 200
    /\ reply[w].status = "FAILED"

C19_ReplyShape ==
  \A w \in Workers :
    (Answered(w) /\ transport[w] = 200) =>
      IF reply[w].format = "json"
        THEN /\ Truthy(req[w].payload.REFERENCE1) =>
                  reply[w].transactionId = req[w].payload.REFERENCE1
             /\ reply[w].extra # {} =>
                  /\ Processing(w)
                  /\ reply[w].message = "Transaction processed successfully"
        ELSE /\ reply[w].transactionId = None
             /\ reply[w].extra = {}

\* A key-value reply of process and a markup reply of validate were given.
C19_Witness ==
  /\ \E w \in Workers :
       /\ Processing(w) /\ Answered(w)
       /\ reply[w].format = "json"
       /\ reply[w].transactionId = "T1"
  /\ \E w \in Workers :
       /\ Validating(w) /\ Answered(w)
       /\ req[w].body = "object"
       /\ reply[w].format = "xml"

\* C20: validate_bill_ref accepts a bill reference exactly when it is
\* non-empty, at most 50 characters long and made of characters of
\* [A-Za-z0-9_.-] only; otherwise it gives the detail of the first check that
\* fails, in the order empty, too long, invalid characters.
C20_BillRefValidator ==
  \A w \in Workers :
    (Validating(w) /\ Decoded(w)) =>
      LET bill_ref == req[w].payload.REFERENCE
          cs       == Chars(bill_ref)
      IN  validate_bill_ref(bill_ref) =
            IF ~Truthy(bill_ref)
              THEN <<FALSE, "Bill reference number cannot be empty">>
            ELSE IF Len(cs) > 50
              THEN <<FALSE, "Bill reference number is too long">>
            ELSE IF \E i \in 1..Len(cs) : ~BillRefChar(cs[i])
              THEN <<FALSE, "Bill reference number contains invalid characters">>
            ELSE <<TRUE, None>>

\* The spellings of an allowed reference type among the values of the model.
AllowedSpellings ==
  {"MSISDN", "ACCOUNT", "INVOICE", "POLICY", "METER", "OTHER", "Invoice", "account"}

\* C21: validate_ref_type accepts a reference type exactly when it is
\* non-empty and its upper-cased value is MSISDN, ACCOUNT, INVOICE, POLICY,
\* METER or OTHER; the empty one fails with "Reference type cannot be empty",
\* every other one with the message that lists the allowed types.  (Of the
\* reference types requests name and validate_ipn infers.)
C21_RefTypeValidator ==
  \A w \in Workers :
    Validating(w) =>
      \A t \in {req[w].payload.refType, loc[w].ref_type} :
        validate_ref_type(t) =
          IF ~Truthy(t)
            THEN <<FALSE, "Reference type cannot be empty">>
          ELSE IF t \in AllowedSpellings
            THEN <<TRUE, None>>
          ELSE <<FALSE, "Reference type must be one of: MSISDN, ACCOUNT, INVOICE, POLICY, METER, OTHER">>

\* Two validate calls are in the service, one that names the type "Invoice"
\* and one that names "UNKNOWN".
C21_Witness ==
  /\ \E w \in Workers :
       /\ Validating(w)
       /\ req[w].payload.refType = "Invoice"
       /\ validate_ref_type(req[w].payload.refType)[1]
  /\ \E w \in Workers :
       /\ Validating(w)
       /\ req[w].payload.refType = "UNKNOWN"
       /\ ~validate_ref_type(req[w].payload.refType)[1]

\* The reference type of a bill reference by the prefix convention.
TypeOfPrefix(bill_ref) ==
  LET cs == Chars(bill_ref)
      prefix == IF Truthy(bill_ref) /\ Len(cs) >= 3 THEN <<cs[1], cs[2], cs[3]>> ELSE <<>>
  IN  CASE prefix = <<"I", "N", "V">> -> "INVOICE"
        [] prefix = <<"M", "T", "R">> -> "METER"
        [] prefix = <<"P", "O", "L">> -> "POLICY"
        [] prefix = <<"M", "S", "I">> -> "MSISDN"
        [] OTHER                      -> "ACCOUNT"

\* C22: when validate infers the reference type (the payload has TYPE C2B) it
\* is the type of the bill reference's prefix, the customer the lookup returns
\* has that type, and the transaction the call creates stores it; when it
\* infers none, the transaction stores ACCOUNT.
C22_InferredRefType ==
  \A w \in Workers :
    (Validating(w) /\ Decoded(w)) =>
      LET p        == req[w].payload
          inferred == p.TYPE = "C2B"
          expected == IF inferred THEN TypeOfPrefix(p.REFERENCE) ELSE None
      IN  /\ loc[w].ref_type = expected
          /\ (inferred /\ loc[w].customer # NullId) =>
               CustomerById(loc[w].customer).ref_type = expected
          /\ loc[w].transaction # NullId =>
               transactions[loc[w].transaction].ref_type =
                 IF inferred THEN expected ELSE "ACCOUNT"

\* A call without TYPE has created a transaction of type ACCOUNT for a
\* customer whose reference type is INVOICE, while another call has inferred
\* POLICY.
C22_Witness ==
  /\ \E w \in Workers :
       /\ Validating(w)
       /\ req[w].payload.TYPE = None
       /\ loc[w].transaction # NullId
       /\ transactions[loc[w].transaction].ref_type = "ACCOUNT"
       /\ CustomerById(loc[w].customer).ref_type = "INVOICE"
  /\ \E w \in Workers :
       /\ Validating(w) /\ Decoded(w)
       /\ loc[w].ref_type = "POLICY"

\* C23: a validate request that names a reference type outside the allowed
\* types, with otherwise valid fields (and an active customer that matches
\* them), is answered FAILED with a message that contains "Invalid reference
\* type", and creates no transaction.
C23_NamedRefTypeIsValidated ==
  \A w \in Workers :
    ( /\ Validating(w) /\ Answered(w) /\ Decoded(w) /\ ~Faulted(w)
      /\ Truthy(req[w].payload.refType)
      /\ req[w].payload.refType \notin AllowedSpellings
      /\ WellFormed(w) /\ loc[w].customer # NullId ) =>
      /\ reply[w].status = "FAILED"
      /\ reply[w].message =
           "Invalid reference type: Reference type must be one of: MSISDN, ACCOUNT, INVOICE, POLICY, METER, OTHER"
      /\ eff[w].tx_created = 0

\* C24: the markup reply create_response builds decodes, with
\* parse_xml_request, to the STATUS and the MESSAGE it was built from, for
\* every status and message the endpoints answer with, the "Internal server
\* error: ..." messages included.
C24_MarkupRoundTrip ==
  \A w \in Workers :
    (Answered(w) /\ transport[w] = 200 /\ reply[w].format = "xml") =>
      LET decoded == parse_xml_request(xml_response(reply[w].status, reply[w].message))
      IN  /\ decoded.ok
          /\ decoded.data["STATUS"] = reply[w].status
          /\ decoded.data["MESSAGE"] = reply[w].message

\* C25: a transaction has no secondary reference after validate; a secondary
\* reference is only set by a process call that supplies it, reads the
\* transaction as VALIDATED and finds its customer ACTIVE; and such a call
\* does set it, to the value supplied, whatever the payment step then does.
C25_SecondaryReference ==
  /\ \A w \in Workers :
       (Validating(w) /\ loc[w].transaction # NullId) =>
         transactions[loc[w].transaction].mobiquity_reference = None
  /\ \A i \in DOMAIN transactions :
       transactions[i].mobiquity_reference # None =>
         transactions[i].status \in {"PROCESSED", "FAILED"}
  /\ \A w \in Workers :
       ( /\ Processing(w) /\ Answered(w) /\ ~Faulted(w)
         /\ Truthy(req[w].payload.REFERENCE2)
         /\ loc[w].status = "VALIDATED"
         /\ loc[w].customer \in CustomerIds
         /\ loc[w].customer_status = "ACTIVE" ) =>
         transactions[loc[w].transaction].mobiquity_reference = req[w].payload.REFERENCE2

C28_AppendOnly ==
  [][ /\ Len(transactions') >= Len(transactions)
      /\ \A i \in DOMAIN transactions :
           transactions'[i].transaction_id = transactions[i].transaction_id
      /\ Len(validation_results') >= Len(validation_results)
      /\ SubSeq(validation_results', 1, Len(validation_results)) = validation_results
      /\ Len(processing_results') >= Len(processing_results)
      /\ SubSeq(processing_results', 1, Len(processing_results)) = processing_results
    ]_vars

\* A validate call has inserted a transaction and a validation result and
\* updated the transaction, which still has the request's external id.
C28_Witness ==
  \E w \in Workers :
    /\ Validating(w)
    /\ eff[w].tx_created = 1 /\ eff[w].val_recorded = 1 /\ eff[w].tx_updated = 1
    /\ transactions[loc[w].transaction].transaction_id = req[w].payload.REFERENCE1
    /\ ValidationResultsOf(loc[w].transaction) # {}

\* C29: validate and process only read customers: no step of either changes
\* a customer's status (the other attributes and the set of customers are
\* fixed); only the owner of the directory does.
C29_CustomersAreOnlyRead ==
  [][ (pc' # pc \/ calls' # calls) => custStatus' = custStatus ]_vars

\* A validate call and a process call have both looked their customer up,
\* and the customer has the status they read.
C29_Witness ==
  /\ \E w \in Workers :
       /\ Validating(w)
       /\ loc[w].customer \in CustomerIds
       /\ custStatus[loc[w].customer] = loc[w].customer_status
  /\ \E w \in Workers :
       /\ Processing(w) /\ Answered(w)
       /\ loc[w].customer \in CustomerIds
       /\ custStatus[loc[w].customer] = loc[w].customer_status

Quiescent == \A w \in Workers : pc[w] \in {"idle", "done"}

\* The stores that calls which ran one after another without a storage fault
\* can have left: a row that is still PENDING is not among them.
SequentialInit ==
  /\ Init
  /\ \A i \in DOMAIN transactions : transactions[i].status # "PENDING"

\* The server takes a request only when no call is being handled, and no store
\* call raises.
SequentialNext ==
  \/ Quiescent /\ \E w \in Workers : ValidateIpn(w)
  \/ \E w \in Workers : VerifyCustomer(w)
  \/ \E w \in Workers : CheckExisting(w)
  \/ \E w \in Workers : CreateTransaction(w)
  \/ \E w \in Workers : RecordValidation(w)
  \/ \E w \in Workers : MarkValidated(w)
  \/ Quiescent /\ \E w \in Workers : ProcessIpn(w)
  \/ \E w \in Workers : GetTransaction(w)
  \/ \E w \in Workers : VerifyActive(w)
  \/ DirectorySetStatus

SequentialSpec == SequentialInit /\ [][SequentialNext]_vars

\* C34: when the calls do not overlap and no storage call fails, between two
\* calls every transaction has exactly one validation result and at most one
\* processing result.
C34_OneOutcomeOfEachKind ==
  Quiescent =>
    \A i \in DOMAIN transactions :
      /\ Cardinality(ValidationResultsOf(i)) = 1
      /\ Cardinality(ProcessingResultsOf(i)) <= 1

\* A second validate call for the external id of a transaction that an earlier
\* validate call created was answered, and the transaction has its one
\* validation result.
C34_Witness ==
  \E w \in Workers :
    /\ Quiescent /\ Validating(w) /\ eff[w].repeat
    /\ ~notNullEnforced
    /\ reply[w].message = "Transaction already processed"
    /\ \E i \in TransactionsWithId(req[w].payload.REFERENCE1) :
         Cardinality(ValidationResultsOf(i)) = 1

\* C35: a step of a validate call changes no transaction but the one the call
\* itself created, and no outcome row of any other transaction: a transaction
\* that exists when the call arrives, the one with the call's external id
\* among them, keeps its status, its fields, its secondary reference and its
\* validation and processing results, whatever its status is.
C35_ValidateLeavesExistingUntouched ==
  [][\A w \in Workers :
       (pc'[w] # pc[w] /\ req'[w].endpoint = "validate") =>
         \A i \in DOMAIN transactions :
           i # loc'[w].transaction =>
             /\ i \in DOMAIN transactions'
             /\ transactions'[i] = transactions[i]
             /\ {validation_results'[k] : k \in ValidationResultsOf(i)'} =
                  {validation_results[k] : k \in ValidationResultsOf(i)}
             /\ ValidationResultsOf(i)' = ValidationResultsOf(i)
             /\ {processing_results'[k] : k \in ProcessingResultsOf(i)'} =
                  {processing_results[k] : k \in ProcessingResultsOf(i)}
             /\ ProcessingResultsOf(i)' = ProcessingResultsOf(i)]_vars

\* A validate call for the external id of a PROCESSED transaction was answered
\* as a duplicate, and the transaction is PROCESSED as before, with its
\* secondary reference and its outcome rows.
C35_Witness ==
  \E w \in Workers :
    /\ Validating(w) /\ Answered(w)
    /\ reply[w].message = "Transaction already processed"
    /\ WroteNothing(w)
    /\ \E i \in TransactionsWithId(req[w].payload.REFERENCE1) :
         /\ transactions[i].status = "PROCESSED"
         /\ transactions[i].mobiquity_reference = "MOB0"
         /\ Cardinality(ValidationResultsOf(i)) = 1
         /\ Cardinality(ProcessingResultsOf(i)) = 1

C38_MissingTransactionId ==
  \A w \in Workers :
    (Processing(w) /\ Decoded(w) /\ ~Truthy(req[w].payload.REFERENCE1)) =>
      /\ Answered(w)
      /\ transport[w] = 200
      /\ reply[w].status = "FAILED"
      /\ reply[w].message = "Missing transaction ID"
      /\ reply[w].format = "json" => reply[w].transactionId = "unknown"
      /\ loc[w].transaction = NullId
      /\ WroteNothing(w)

\* A process call with a secondary reference and no external id was answered,
\* while a transaction is stored.
C38_Witness ==
  \E w \in Workers :
    /\ Processing(w) /\ Answered(w)
    /\ req[w].payload = ProcessPayload(None, "MOB1")
    /\ reply[w] = create_response("json", "FAILED", "Missing transaction ID",
                                  "unknown", {})
    /\ transactions # <<>>
    /\ WroteNothing(w)

====
